---- MODULE Spec2Model ----
(***************************************************************************)
(* State-machine model of the allzpark GUI widgets:                        *)
(*   gui/widgets.py          BusyWidget, SlidePageWidget, WorkspaceWidget  *)
(*   gui2/widgets_avalon.py  AvalonWidget and its models                   *)
(* Every handler is one action.  The variables call, raised, logged and    *)
(* emitted record, for the most recent handler call, its name and          *)
(* arguments, the exception it propagated to its caller ("none" when it    *)
(* returned), the log records it wrote and the signals it emitted.         *)
(***************************************************************************)
EXTENDS Integers, Sequences, FiniteSets, TLC

\* ------------------------------------------------------------------ bounds
MaxCursor == 3
MaxAdds == 2
MaxAnims == 2
NumPages == 3
MaxNames == 2
MaxChildren == 2

\* Page count of the AvalonWidget slider: project_list and asset_page.
AvalonPages == 2

None == "None"

VARIABLES
    busy_works,     \* BusyWidget._busy_works, per instance
    entered,        \* BusyWidget._entered, per instance
    filters,        \* objects the BusyEventFilterSingleton is installed on
    cursor_stack,   \* depth of QApplication's override-cursor stack
    busy_adds,      \* history: set_overwhelmed calls per id since its last pop
    cursor_balance, \* history: setOverrideCursor calls minus restore calls
    slide_count,    \* SlidePageWidget.count()
    slide_index,    \* SlidePageWidget.currentIndex()
    slide_anims,    \* running animation groups, by target page, oldest first
    av_entrance,    \* AvalonWidget._entrance
    av_page,        \* AvalonWidget._page
    av_tasks,       \* items of AvalonWidget._tasks (QComboBox)
    av_projects,    \* rows of ProjectListModel
    av_assets,      \* rows of AssetTreeModel
    av_current,     \* history: scope of the latest enter_workspace call
    ws_stack,       \* pages of WorkspaceWidget._stack
    ws_stack_index, \* WorkspaceWidget._stack.currentIndex()
    ws_combo,       \* item texts of WorkspaceWidget._combo
    ws_combo_index, \* WorkspaceWidget._combo.currentIndex()
    ws_blocked,     \* WorkspaceWidget.signalsBlocked()
    ws_dispatched,  \* the backend widget method the latest call reached
    tl_label,       \* ToolLaunchWidget._label text
    tl_ctx,         \* ToolLaunchWidget._ctx text
    tl_name,        \* ToolLaunchWidget._name text
    tl_launch,      \* ToolLaunchWidget._launch.isEnabled()
    tl_shell,       \* ToolLaunchWidget._shell.isEnabled()
    tl_tool,        \* ToolLaunchWidget._tool (a tool id, 0 for None)
    tl_last,        \* history: the latest of reset and set_tool
    tv_selected,    \* selected row of ToolsView._view (0: no selection)
    te_context,     \* context shown by ResolvedContextView (0: pending)
    te_env,         \* environment loaded into ResolvedEnvironmentModel
    te_note,        \* context whose inspection annotates the environment
    re_text,        \* ResolvedEnvironment._search.text()
    re_timer,       \* ms left on _timer (-1: not running)
    re_filter,      \* filter text applied to _proxy
    re_view,        \* _view: "expanded" or "collapsed"
    re_inverse,     \* inverse state handed to _proxy
    re_mode,        \* _proxy filters on "key" or on "value"
    re_switch_text, \* text of _switch
    re_since,       \* history: ms since the latest text change
    re_burst,       \* history: text changes since the latest application
    re_applied,     \* history: applications since the latest text change
    call,           \* the latest handler call
    raised,         \* exception propagated by the latest call
    logged,         \* log records written by the latest call
    emitted         \* signals emitted by the latest call

busyVars == <<busy_works, entered, filters, cursor_stack, busy_adds,
              cursor_balance>>
slideVars == <<slide_count, slide_index, slide_anims>>
avVars == <<av_entrance, av_page, av_tasks, av_projects, av_assets, av_current>>
wsVars == <<ws_stack, ws_stack_index, ws_combo, ws_combo_index, ws_blocked,
            ws_dispatched>>
toolVars == <<tl_label, tl_ctx, tl_name, tl_launch, tl_shell, tl_tool, tl_last,
              tv_selected, te_context, te_env, te_note>>
envVars == <<re_text, re_timer, re_filter, re_view, re_inverse, re_mode,
             re_switch_text, re_since, re_burst, re_applied>>
outVars == <<call, raised, logged, emitted>>
vars == <<busyVars, slideVars, avVars, wsVars, toolVars, envVars, outVars>>

\* ============================================================ BusyWidget

\* Two BusyWidget instances; B is a child of A, a1 and b1 are plain widgets.
BusyInst == {"A", "B"}
Widgets == {"A", "B", "a1", "b1"}
Workers == {"a", "b", "c"}

children(w) ==
    CASE w = "A" -> {"a1", "B"}
      [] w = "B" -> {"b1"}
      [] OTHER -> {}

\* iter_children(w): every descendant of w (the tree is two levels deep).
iter_children(w) ==
    children(w) \cup UNION {children(c) : c \in children(w)}

\* Mutant: the filter reaches the descendants but not the widget itself.
block_children_skip_self(f, self, block) ==
    IF block THEN f \cup iter_children(self) ELSE f \ iter_children(self)

\* _block_children(block): install or remove the shared filter on every
\* descendant and on the widget; returns the new set of filtered objects.
block_children(f, self, block) ==
    IF block
    THEN f \cup iter_children(self) \cup {self}
    ELSE f \ (iter_children(self) \cup {self})

\* _over_busy_cursor(over): push BusyCursor on, or pop, the override stack
\* (restoreOverrideCursor on an empty stack does nothing).
over_busy_cursor(depth, over) ==
    IF over THEN depth + 1 ELSE IF depth > 0 THEN depth - 1 ELSE 0

\* The calls _over_busy_cursor(over) makes, as set calls minus restore calls.
cursor_calls(balance, over) ==
    IF over THEN balance + 1 ELSE balance - 1

\* adds: how often set_overwhelmed was called for arg since its last pop,
\* counted before this call.
BusyOut(op, self, arg) ==
    /\ call' = [op |-> op, self |-> self, arg |-> arg,
                adds |-> IF arg \in Workers THEN busy_adds[self][arg] ELSE 0]
    /\ raised' = "none"
    /\ logged' = <<>>
    /\ emitted' = <<>>

set_overwhelmed(self, worker) ==
    /\ busy_adds[self][worker] < MaxAdds
    /\ (busy_works[self] = {} /\ entered[self]) => cursor_stack < MaxCursor
    /\ IF busy_works[self] = {}
       THEN /\ cursor_stack' = IF entered[self]
                               THEN over_busy_cursor(cursor_stack, TRUE)
                               ELSE cursor_stack
            /\ filters' = block_children(filters, self, TRUE)
       ELSE UNCHANGED <<cursor_stack, filters>>
    /\ cursor_balance' = IF busy_works[self] = {} /\ entered[self]
                         THEN cursor_calls(cursor_balance, TRUE)
                         ELSE cursor_balance
    /\ busy_works' = [busy_works EXCEPT ![self] = @ \cup {worker}]
    /\ busy_adds' = [busy_adds EXCEPT ![self][worker] = @ + 1]
    /\ UNCHANGED entered
    /\ BusyOut("set_overwhelmed", self, worker)
    /\ UNCHANGED <<slideVars, avVars, wsVars, toolVars, envVars>>

\* Mutant: workers are counted, a pop only undoes one set_overwhelmed.
pop_overwhelmed_counted(self, worker) ==
    LET left == IF busy_adds[self][worker] > 1
                THEN busy_works[self]
                ELSE busy_works[self] \ {worker}
    IN  /\ busy_works' = [busy_works EXCEPT ![self] = left]
        /\ busy_adds' = [busy_adds EXCEPT ![self][worker] =
                            IF @ > 0 THEN @ - 1 ELSE 0]
        /\ IF left = {}
           THEN /\ cursor_stack' = IF entered[self]
                                   THEN over_busy_cursor(cursor_stack, FALSE)
                                   ELSE cursor_stack
                /\ filters' = block_children(filters, self, FALSE)
           ELSE UNCHANGED <<cursor_stack, filters>>
        /\ (left = {} /\ entered[self]) => cursor_balance > -MaxCursor
        /\ cursor_balance' = IF left = {} /\ entered[self]
                             THEN cursor_calls(cursor_balance, FALSE)
                             ELSE cursor_balance
        /\ UNCHANGED entered
        /\ BusyOut("pop_overwhelmed", self, worker)
        /\ UNCHANGED <<slideVars, avVars, wsVars, toolVars, envVars>>

pop_overwhelmed(self, worker) ==
    LET left == busy_works[self] \ {worker}
    IN  /\ busy_works' = [busy_works EXCEPT ![self] = left]
        /\ busy_adds' = [busy_adds EXCEPT ![self][worker] = 0]
        /\ IF left = {}
           THEN /\ cursor_stack' = IF entered[self]
                                   THEN over_busy_cursor(cursor_stack, FALSE)
                                   ELSE cursor_stack
                /\ filters' = block_children(filters, self, FALSE)
           ELSE UNCHANGED <<cursor_stack, filters>>
        /\ (left = {} /\ entered[self]) => cursor_balance > -MaxCursor
        /\ cursor_balance' = IF left = {} /\ entered[self]
                             THEN cursor_calls(cursor_balance, FALSE)
                             ELSE cursor_balance
        /\ UNCHANGED entered
        /\ BusyOut("pop_overwhelmed", self, worker)
        /\ UNCHANGED <<slideVars, avVars, wsVars, toolVars, envVars>>

\* Mutant: leaving the widget also lifts the input blocking.
leaveEvent_unblocks(self) ==
    /\ cursor_stack' = IF busy_works[self] # {}
                       THEN over_busy_cursor(cursor_stack, FALSE)
                       ELSE cursor_stack
    /\ busy_works[self] # {} => cursor_balance > -MaxCursor
    /\ cursor_balance' = IF busy_works[self] # {}
                         THEN cursor_calls(cursor_balance, FALSE)
                         ELSE cursor_balance
    /\ entered' = [entered EXCEPT ![self] = FALSE]
    /\ filters' = block_children(filters, self, FALSE)
    /\ UNCHANGED <<busy_works, busy_adds>>
    /\ BusyOut("leaveEvent", self, None)
    /\ UNCHANGED <<slideVars, avVars, wsVars, toolVars, envVars>>

enterEvent(self) ==
    /\ busy_works[self] # {} => cursor_stack < MaxCursor
    /\ cursor_stack' = IF busy_works[self] # {}
                       THEN over_busy_cursor(cursor_stack, TRUE)
                       ELSE cursor_stack
    /\ cursor_balance' = IF busy_works[self] # {}
                         THEN cursor_calls(cursor_balance, TRUE)
                         ELSE cursor_balance
    /\ entered' = [entered EXCEPT ![self] = TRUE]
    /\ UNCHANGED <<busy_works, busy_adds, filters>>
    /\ BusyOut("enterEvent", self, None)
    /\ UNCHANGED <<slideVars, avVars, wsVars, toolVars, envVars>>

leaveEvent(self) ==
    /\ cursor_stack' = IF busy_works[self] # {}
                       THEN over_busy_cursor(cursor_stack, FALSE)
                       ELSE cursor_stack
    /\ busy_works[self] # {} => cursor_balance > -MaxCursor
    /\ cursor_balance' = IF busy_works[self] # {}
                         THEN cursor_calls(cursor_balance, FALSE)
                         ELSE cursor_balance
    /\ entered' = [entered EXCEPT ![self] = FALSE]
    /\ UNCHANGED <<busy_works, busy_adds, filters>>
    /\ BusyOut("leaveEvent", self, None)
    /\ UNCHANGED <<slideVars, avVars, wsVars, toolVars, envVars>>

\* ======================================================= SlidePageWidget

\* SlidePageWidget.directions: the keys of the offset table.
directions == {"left", "right", "up", "down"}

\* Direction tokens offered to slide_view: the four keys and a wrong one.
DirectionTokens == directions \cup {"forward"}

\* Mutant: the early return for index = currentIndex() is missing.
slide_view_no_guard(index, direction) ==
    IF direction \notin directions
    THEN /\ logged' = <<[level |-> "warning", text |-> direction]>>
         /\ UNCHANGED slideVars
    ELSE /\ Len(slide_anims) < MaxAnims
         /\ slide_anims' = Append(slide_anims, index)
         /\ logged' = <<>>
         /\ UNCHANGED <<slide_count, slide_index>>

\* Mutant: an unknown direction aborts the transition without a warning.
slide_view_silent(index, direction) ==
    IF slide_index = index \/ direction \notin directions
    THEN /\ logged' = <<>>
         /\ UNCHANGED slideVars
    ELSE /\ Len(slide_anims) < MaxAnims
         /\ slide_anims' = Append(slide_anims, index)
         /\ logged' = <<>>
         /\ UNCHANGED <<slide_count, slide_index>>

\* slide_view(index, direction): constrains the slider and the log only, so
\* that AvalonWidget.set_page can call it.
slide_view(index, direction) ==
    IF slide_index = index
    THEN /\ logged' = <<>>
         /\ UNCHANGED slideVars
    ELSE IF direction \notin directions
    THEN /\ logged' = <<[level |-> "warning", text |-> direction]>>
         /\ UNCHANGED slideVars
    ELSE /\ Len(slide_anims) < MaxAnims
         /\ slide_anims' = Append(slide_anims, index)
         /\ logged' = <<>>
         /\ UNCHANGED <<slide_count, slide_index>>

\* A caller invokes slide_view on the slider.
call_slide_view(index, direction) ==
    /\ slide_view(index, direction)
    /\ call' = [op |-> "slide_view", index |-> index, direction |-> direction]
    /\ raised' = "none"
    /\ emitted' = <<>>
    /\ UNCHANGED <<busyVars, avVars, wsVars, toolVars, envVars>>

\* anim_group.finished -> slide_finished(): the oldest running group ends
\* (all groups last 250 ms) and its new_page becomes the current widget.
slide_finished ==
    /\ slide_anims # <<>>
    /\ slide_index' = Head(slide_anims)
    /\ slide_anims' = Tail(slide_anims)
    /\ UNCHANGED slide_count
    /\ call' = [op |-> "slide_finished", index |-> Head(slide_anims)]
    /\ raised' = "none"
    /\ logged' = <<>>
    /\ emitted' = <<>>
    /\ UNCHANGED <<busyVars, avVars, wsVars, toolVars, envVars>>

\* ========================================================== AvalonWidget

\* Scopes handed to the widget: one of each registered variant, and one of a
\* variant no handler is registered for.
Scope(variant, name) == [variant |-> variant, name |-> name]
NoScope == Scope(None, None)
Entrances == {Scope("Entrance", "avalon")}
Projects == {Scope("Project", "P1"), Scope("Project", "P2")}
Scopes == Entrances \cup Projects
          \cup {Scope("Asset", "char"), Scope("Task", "rig"),
                Scope("Other", "x")}

\* Project.tasks, Project.is_active and Project.roles of the projects.
tasks(name) == IF name = "P1" THEN <<"model", "rig">> ELSE <<"anim">>
is_active(name) == name # "P3"
roles(name) == IF name = "P2" THEN {"admin"} ELSE {}
MEMBER_ROLE == "member"

\* The assets the resolver knows, by id: name, parent asset (an id, 0 for
\* parent None), hidden flag and owning project.
Asset(name, parent, hidden, project) ==
    [name |-> name, parent |-> parent, is_hidden |-> hidden,
     project |-> project]
AssetPool ==
    <<Asset("char", 0, FALSE, "P1"), Asset("hero", 1, FALSE, "P1"),
      Asset("props", 0, TRUE, "P1"), Asset("cup", 3, FALSE, "P1"),
      Asset("set", 0, FALSE, "P2")>>

\* Sequences without repetition, of at most MaxChildren elements of S.
ChildLists(S) ==
    UNION {{q \in [1..n -> S] : \A i, j \in 1..n : q[i] = q[j] => i = j}
           : n \in 0..MaxChildren}

ProjectChildLists == ChildLists({"P1", "P2", "P3"})
AssetChildLists ==
    [p \in {"P1", "P2"} |->
        ChildLists({i \in DOMAIN AssetPool : AssetPool[i].project = p})]

\* What resolve_children delivers for a scope.
ChildrenOf(scope) ==
    CASE scope.variant = "Entrance" -> ProjectChildLists
      [] scope.variant = "Project" -> AssetChildLists[scope.name]
      [] OTHER -> {<<>>}

\* ProjectListModel.refresh(scopes): the rows after reset() and the loop.
RECURSIVE ProjectListModel_refresh(_)
ProjectListModel_refresh(scopes) ==
    IF scopes = <<>> THEN <<>>
    ELSE LET project == Head(scopes)
             keep == is_active(project)
                     /\ (roles(project) = {} \/ MEMBER_ROLE \in roles(project))
         IN  (IF keep THEN <<project>> ELSE <<>>)
             \o ProjectListModel_refresh(Tail(scopes))

\* The loop of AssetTreeModel.refresh: rows holds the items appended so far,
\* each with the row it hangs under (0: the model's root); items is the
\* _asset_items dict, name -> row, 0 for a missing key.
RECURSIVE AssetTreeModel_loop(_, _, _)
AssetTreeModel_loop(scopes, rows, items) ==
    IF scopes = <<>> THEN [rows |-> rows, raised |-> "none"]
    ELSE LET id == Head(scopes)
             asset == AssetPool[id]
             row == Len(rows) + 1
             items2 == [items EXCEPT ![asset.name] = row]
         IN  IF asset.is_hidden
             THEN AssetTreeModel_loop(Tail(scopes), rows, items)
             ELSE IF asset.parent = 0
             THEN AssetTreeModel_loop(
                      Tail(scopes),
                      Append(rows, [asset |-> id, under |-> 0]), items2)
             ELSE IF items2[AssetPool[asset.parent].name] = 0
             THEN [rows |-> rows, raised |-> "KeyError"]
             ELSE AssetTreeModel_loop(
                      Tail(scopes),
                      Append(rows, [asset |-> id, under |->
                                 items2[AssetPool[asset.parent].name]]),
                      items2)

AssetNames == {AssetPool[i].name : i \in DOMAIN AssetPool}

\* AssetTreeModel.refresh(scopes): reset(), then the loop.
AssetTreeModel_refresh(scopes) ==
    AssetTreeModel_loop(scopes, <<>>, [n \in AssetNames |-> 0])

\* AvalonWidget.set_page(page): constrains _page, the slider and the log.
set_page(page) ==
    LET current == slide_index
    IN  IF current = page /\ av_page = page
        THEN /\ logged' = <<>>
             /\ UNCHANGED <<av_page, slideVars>>
        ELSE /\ av_page' = page
             /\ slide_view(page, IF page > current THEN "right" ELSE "left")

\* A caller invokes set_page; started counts the animation groups the call
\* started.
call_set_page(page) ==
    /\ set_page(page)
    /\ call' = [op |-> "set_page", page |-> page,
                started |-> Len(slide_anims') - Len(slide_anims)]
    /\ raised' = "none"
    /\ emitted' = <<>>
    /\ UNCHANGED <<av_entrance, av_tasks, av_projects, av_assets, av_current>>
    /\ UNCHANGED <<busyVars, wsVars, toolVars, envVars>>

AvalonOut(op, scope) ==
    /\ call' = [op |-> op, scope |-> scope]
    /\ emitted' = <<>>
    /\ UNCHANGED <<busyVars, wsVars, toolVars, envVars>>

\* Mutant: entering a Project adds its tasks to the items already there.
enter_workspace_appends(scope) ==
    /\ av_current' = scope
    /\ AvalonOut("enter_workspace", scope)
    /\ CASE scope.variant = "Entrance" ->
              /\ av_entrance' = scope
              /\ set_page(0)
              /\ raised' = "none"
              /\ UNCHANGED <<av_tasks, av_projects, av_assets>>
         [] scope.variant = "Project" ->
              /\ set_page(1)
              /\ av_tasks' = av_tasks \o tasks(scope.name)
              /\ raised' = "none"
              /\ UNCHANGED <<av_entrance, av_projects, av_assets>>
         [] scope.variant \in {"Asset", "Task"} ->
              /\ raised' = "none"
              /\ logged' = <<>>
              /\ UNCHANGED <<av_entrance, av_page, av_tasks, av_projects,
                             av_assets, slideVars>>
         [] OTHER ->
              /\ raised' = "NotImplementedError"
              /\ logged' = <<>>
              /\ UNCHANGED <<av_entrance, av_page, av_tasks, av_projects,
                             av_assets, slideVars>>

\* enter_workspace(scope): single dispatch on the type of scope.
enter_workspace(scope) ==
    /\ av_current' = scope
    /\ AvalonOut("enter_workspace", scope)
    /\ CASE scope.variant = "Entrance" ->
              /\ av_entrance' = scope
              /\ set_page(0)
              /\ raised' = "none"
              /\ UNCHANGED <<av_tasks, av_projects, av_assets>>
         [] scope.variant = "Project" ->
              /\ set_page(1)
              /\ av_tasks' = tasks(scope.name)
              /\ raised' = "none"
              /\ UNCHANGED <<av_entrance, av_projects, av_assets>>
         [] scope.variant \in {"Asset", "Task"} ->
              /\ raised' = "none"
              /\ logged' = <<>>
              /\ UNCHANGED <<av_entrance, av_page, av_tasks, av_projects,
                             av_assets, slideVars>>
         [] OTHER ->
              /\ raised' = "NotImplementedError"
              /\ logged' = <<>>
              /\ UNCHANGED <<av_entrance, av_page, av_tasks, av_projects,
                             av_assets, slideVars>>

\* update_workspace(scope, scopes): single dispatch on the type of scope.
update_workspace(scope, scopes) ==
    /\ call' = [op |-> "update_workspace", scope |-> scope,
                scopes |-> scopes]
    /\ emitted' = <<>>
    /\ UNCHANGED <<busyVars, wsVars, toolVars, envVars>>
    /\ logged' = <<>>
    /\ UNCHANGED <<av_entrance, av_page, av_tasks, av_current, slideVars>>
    /\ CASE scope.variant = "Entrance" ->
              /\ av_projects' = ProjectListModel_refresh(scopes)
              /\ raised' = "none"
              /\ UNCHANGED av_assets
         [] scope.variant = "Project" ->
              /\ av_assets' = AssetTreeModel_refresh(scopes).rows
              /\ raised' = AssetTreeModel_refresh(scopes).raised
              /\ UNCHANGED av_projects
         [] scope.variant \in {"Asset", "Task"} ->
              /\ raised' = "none"
              /\ UNCHANGED <<av_projects, av_assets>>
         [] OTHER ->
              /\ raised' = "NotImplementedError"
              /\ UNCHANGED <<av_projects, av_assets>>

\* ======================================================= WorkspaceWidget

\* _load_backends(): the keys of the table of widget getters.
load_backends == {"avalon", "sg_sync"}

\* Names a caller may hand to register_backends: the two keys and one name
\* the table does not hold.
BackendNames == load_backends \cup {"ftrack"}

\* What getting and constructing a backend widget can do on this machine.
Outcomes == {"ok", "import_error", "init_error"}

NameLists == UNION {[1..n -> BackendNames] : n \in 0..MaxNames}

Log(level, text) == [level |-> level, text |-> text]
Signal(name, arg) == [signal |-> name, arg |-> arg]

\* _on_backend_changed(name): self.backend_changed.emit(name), which
\* QObject.blockSignals(True) on self suppresses.
on_backend_changed(name, blocked) ==
    IF blocked THEN <<>> ELSE <<Signal("backend_changed", name)>>

\* QComboBox.findText(text): first matching index, from 0, or -1.
findText(combo, text) ==
    IF \E i \in 1..Len(combo) : combo[i] = text
    THEN (CHOOSE i \in 1..Len(combo) :
              /\ combo[i] = text
              /\ \A j \in 1..(i - 1) : combo[j] # text) - 1
    ELSE -1

\* The for loop of register_backends, run with signals blocked.  st holds
\* stack, combo, log, emitted and raised; an exception ends the loop.
RECURSIVE register_loop(_, _, _)
register_loop(names, outcome, st) ==
    IF names = <<>> THEN st
    ELSE LET name == Head(names)
             rest == Tail(names)
         IN  IF name \notin load_backends
             THEN register_loop(rest, outcome,
                      [st EXCEPT !.log = Append(@, Log("error", name))])
             ELSE IF outcome[name] = "import_error"
             THEN register_loop(rest, outcome,
                      [st EXCEPT !.log = Append(@, Log("error", name))])
             ELSE IF outcome[name] = "init_error"
             THEN [st EXCEPT !.raised = "Exception"]
             ELSE register_loop(rest, outcome,
                      [st EXCEPT
                          !.stack = Append(@, name),
                          !.combo = Append(@, name),
                          !.emitted = @ \o (IF st.combo = <<>>
                                            THEN on_backend_changed(name, TRUE)
                                            ELSE <<>>)])

NoDispatch == [page |-> -1, method |-> None]

WorkspaceOut(op, arg) ==
    /\ call' = [op |-> op, arg |-> arg]
    /\ UNCHANGED <<busyVars, slideVars, avVars, toolVars, envVars>>

register_backends(names, outcome) ==
    /\ call' = [op |-> "register_backends", arg |-> names,
                outcome |-> outcome]
    /\ UNCHANGED <<busyVars, slideVars, avVars, toolVars, envVars>>
    /\ ws_dispatched' = NoDispatch
    /\ IF Len(ws_stack) > 1
       THEN /\ raised' = "none"
            /\ logged' = <<>>
            /\ emitted' = <<>>
            /\ UNCHANGED <<ws_stack, ws_stack_index, ws_combo, ws_combo_index,
                           ws_blocked>>
       ELSE LET st == register_loop(names, outcome,
                          [stack |-> ws_stack, combo |-> ws_combo,
                           log |-> <<>>, emitted |-> <<>>, raised |-> "none"])
            IN  /\ ws_stack' = st.stack
                /\ ws_combo' = st.combo
                /\ ws_combo_index' = IF ws_combo = <<>> /\ st.combo # <<>>
                                     THEN 0 ELSE ws_combo_index
                /\ UNCHANGED ws_stack_index
                /\ raised' = st.raised
                /\ IF st.raised # "none"
                   THEN /\ ws_blocked' = TRUE
                        /\ logged' = st.log
                        /\ emitted' = st.emitted
                   ELSE /\ ws_blocked' = FALSE
                        /\ IF Len(st.combo) > 0
                           THEN /\ emitted' = st.emitted \o
                                       on_backend_changed(st.combo[1], FALSE)
                                /\ logged' = st.log
                           ELSE /\ emitted' = st.emitted
                                /\ logged' = Append(st.log,
                                       Log("error", "No valid backend"))

\* The user picks entry i of the selector: currentTextChanged fires when the
\* text differs, and is connected to _on_backend_changed.
select_backend(i) ==
    /\ i \in 0..(Len(ws_combo) - 1)
    /\ i # ws_combo_index
    /\ WorkspaceOut("select_backend", i)
    /\ ws_combo_index' = i
    /\ emitted' = IF ws_combo[i + 1] # ws_combo[ws_combo_index + 1]
                  THEN on_backend_changed(ws_combo[i + 1], ws_blocked)
                  ELSE <<>>
    /\ raised' = "none"
    /\ logged' = <<>>
    /\ ws_dispatched' = NoDispatch
    /\ UNCHANGED <<ws_stack, ws_stack_index, ws_combo, ws_blocked>>

\* Scopes handed to WorkspaceWidget: a name and the upstream reference.
WsScope(name, upstream) == [name |-> name, upstream |-> upstream]
WsScopes ==
    {WsScope(n, None) : n \in {"avalon", "sg_sync", "Studio"}}
    \cup {WsScope("P1", "avalon")}

\* widget = self._stack.currentWidget(); widget.<method>(...): the void page
\* is a plain QWidget without the backend methods.
dispatch(index, method) ==
    IF ws_stack[index + 1] = "void"
    THEN /\ raised' = "AttributeError"
         /\ ws_dispatched' = NoDispatch
    ELSE /\ raised' = "none"
         /\ ws_dispatched' = [page |-> index, method |-> method]

on_workspace_entered(scope) ==
    LET found == findText(ws_combo, scope.name)
        index == found + 1
        root == scope.upstream = None
        current == IF root /\ index # ws_stack_index
                   THEN index ELSE ws_stack_index
    IN  /\ WorkspaceOut("on_workspace_entered", scope)
        /\ logged' = IF root /\ found < 0
                     THEN <<Log("critical", scope.name)>> ELSE <<>>
        /\ ws_stack_index' = current
        /\ dispatch(current, "enter_workspace")
        /\ emitted' = <<>>
        /\ UNCHANGED <<ws_stack, ws_combo, ws_combo_index, ws_blocked>>

on_workspace_updated ==
    /\ WorkspaceOut("on_workspace_updated", None)
    /\ dispatch(ws_stack_index, "update_workspace")
    /\ logged' = <<>>
    /\ emitted' = <<>>
    /\ UNCHANGED <<ws_stack, ws_stack_index, ws_combo, ws_combo_index,
                   ws_blocked>>

on_cache_cleared ==
    /\ WorkspaceOut("on_cache_cleared", None)
    /\ dispatch(ws_stack_index, "on_cache_cleared")
    /\ logged' = <<>>
    /\ emitted' = <<>>
    /\ UNCHANGED <<ws_stack, ws_stack_index, ws_combo, ws_combo_index,
                   ws_blocked>>

\* ============================================== BusyEventFilterSingleton

\* The QEvent types eventFilter tests for.
blocked_events ==
    {"Scroll", "KeyPress", "KeyRelease", "MouseButtonPress",
     "MouseButtonRelease", "MouseButtonDblClick"}

\* Event types sent to the widgets: the six above and some others.
EventTypes == blocked_events \cup {"MouseMove", "Wheel", "Paint", "Enter"}

\* Mutant: Scroll is missing from the tuple of blocked types.
eventFilter_no_scroll(type) ==
    IF type \in blocked_events \ {"Scroll"}
    THEN [handled |-> TRUE,
          emitted |-> <<Signal("overwhelmed", "Not allowed at this moment.")>>]
    ELSE [handled |-> FALSE, emitted |-> <<>>]

\* eventFilter(watched, event): the return value and the emitted signals.
eventFilter(type) ==
    IF type \in blocked_events
    THEN [handled |-> TRUE,
          emitted |-> <<Signal("overwhelmed", "Not allowed at this moment.")>>]
    ELSE [handled |-> FALSE, emitted |-> <<>>]

\* Qt sends an event to a widget: the filter, where installed, sees it first.
sendEvent(watched, type) ==
    /\ IF watched \in filters
       THEN /\ call' = [op |-> "eventFilter", watched |-> watched,
                        type |-> type, handled |-> eventFilter(type).handled]
            /\ emitted' = eventFilter(type).emitted
       ELSE /\ call' = [op |-> "event", watched |-> watched, type |-> type,
                        handled |-> FALSE]
            /\ emitted' = <<>>
    /\ raised' = "none"
    /\ logged' = <<>>
    /\ UNCHANGED <<busyVars, slideVars, avVars, wsVars, toolVars, envVars>>

\* ============================================= AvalonWidget: home button

\* home.clicked -> _on_home_clicked(); the button lies on the asset page
\* (index 1).  The assert is skipped when Python runs with -O, and then
\* None is emitted.
on_home_clicked ==
    /\ slide_index = 1
    /\ IF av_entrance # NoScope
       THEN /\ raised' = "none"
            /\ emitted' = <<Signal("workspace_changed", av_entrance)>>
       ELSE \/ /\ raised' = "AssertionError"
               /\ emitted' = <<>>
            \/ /\ raised' = "none"
               /\ emitted' = <<Signal("workspace_changed", NoScope)>>
    /\ call' = [op |-> "_on_home_clicked", scope |-> av_entrance]
    /\ logged' = <<>>
    /\ UNCHANGED <<busyVars, slideVars, avVars, wsVars, toolVars, envVars>>

\* ====================================== ToolLaunchWidget, ToolsView,
\* ====================================== ToolContextWidget

\* Environment variables and values of the resolved environments.
EnvKeys == {"PATH", "HOME"}
EnvValues == {"/a:/b", "/c"}

\* The SuiteTools of the current workspace, by id: name, ctx_name,
\* metadata.label and the environment context.get_environ() returns.
SuiteTool(name, ctx_name, label, env) ==
    [name |-> name, ctx_name |-> ctx_name, label |-> label, env |-> env]
ToolPool ==
    <<SuiteTool("maya", "ctxA", "Maya",
                [k \in {"PATH", "HOME"} |->
                    IF k = "PATH" THEN "/a:/b" ELSE "/c"]),
      SuiteTool("nuke", "ctxB", "", [k \in {"PATH"} |-> "/a:/b"]),
      SuiteTool("mayapy", "ctxA", "Maya", [k \in {} |-> "/c"])>>
ToolIds == DOMAIN ToolPool

\* The work-directory overrides handed over with a selected tool.
WorkEnvs == UNION {[ks -> EnvValues] : ks \in SUBSET EnvKeys}

\* Mutant: the overrides replace the resolved environment.
dict_update_replace(env, work_env) == work_env

\* env.update(work_env) on a Python dict.
dict_update(env, work_env) ==
    [k \in DOMAIN env \cup DOMAIN work_env |->
        IF k \in DOMAIN work_env THEN work_env[k] ELSE env[k]]

\* Mutant: reset() leaves the shell button enabled.
ToolLaunchWidget_reset_keeps_shell ==
    /\ tl_ctx' = ""
    /\ tl_name' = ""
    /\ tl_label' = ""
    /\ tl_launch' = FALSE
    /\ tl_last' = "reset"
    /\ UNCHANGED <<tl_tool, tl_shell>>

\* ToolLaunchWidget.reset(): constrains the launcher only.
ToolLaunchWidget_reset ==
    /\ tl_ctx' = ""
    /\ tl_name' = ""
    /\ tl_label' = ""
    /\ tl_shell' = FALSE
    /\ tl_launch' = FALSE
    /\ tl_last' = "reset"
    /\ UNCHANGED tl_tool

\* Mutant: set_tool shows the tool but does not store it.
ToolLaunchWidget_set_tool_unstored(tool) ==
    /\ tl_label' = ToolPool[tool].label
    /\ tl_ctx' = ToolPool[tool].ctx_name
    /\ tl_name' = ToolPool[tool].name
    /\ tl_shell' = TRUE
    /\ tl_launch' = TRUE
    /\ tl_last' = "set_tool"
    /\ UNCHANGED tl_tool

\* ToolLaunchWidget.set_tool(tool): constrains the launcher only.
ToolLaunchWidget_set_tool(tool) ==
    /\ tl_label' = ToolPool[tool].label
    /\ tl_ctx' = ToolPool[tool].ctx_name
    /\ tl_name' = ToolPool[tool].name
    /\ tl_tool' = tool
    /\ tl_shell' = TRUE
    /\ tl_launch' = TRUE
    /\ tl_last' = "set_tool"

ToolOut(op, tool) ==
    /\ call' = [op |-> op, tool |-> tool]
    /\ raised' = "none"
    /\ logged' = <<>>
    /\ UNCHANGED <<busyVars, slideVars, avVars, wsVars, envVars>>

\* A caller invokes reset() on the launcher.
call_reset ==
    /\ ToolLaunchWidget_reset
    /\ ToolOut("reset", 0)
    /\ emitted' = <<>>
    /\ UNCHANGED <<tv_selected, te_context, te_env, te_note>>

\* A caller invokes set_tool(tool) on the launcher.
call_set_tool(tool) ==
    /\ ToolLaunchWidget_set_tool(tool)
    /\ ToolOut("set_tool", tool)
    /\ emitted' = <<>>
    /\ UNCHANGED <<tv_selected, te_context, te_env, te_note>>

\* _on_launch_tool_clicked: the Launch button, clickable while enabled.
on_launch_tool_clicked ==
    /\ tl_launch
    /\ ToolOut("_on_launch_tool_clicked", tl_tool)
    /\ emitted' = <<Signal("tool_launched", tl_tool)>>
    /\ UNCHANGED toolVars

\* _on_launch_shell_clicked: the shell button, clickable while enabled.
on_launch_shell_clicked ==
    /\ tl_shell
    /\ ToolOut("_on_launch_shell_clicked", tl_tool)
    /\ emitted' = <<Signal("shell_launched", tl_tool)>>
    /\ UNCHANGED toolVars

\* ToolContextWidget.on_tool_selected(suite_tool, work_env).
on_tool_selected(tool, work_env) ==
    /\ te_context' = tool
    /\ te_env' = dict_update(ToolPool[tool].env, work_env)
    /\ te_note' = tool
    /\ ToolLaunchWidget_set_tool(tool)
    /\ call' = [op |-> "on_tool_selected", tool |-> tool,
                work_env |-> work_env]
    /\ raised' = "none"
    /\ logged' = <<>>
    /\ emitted' = <<>>
    /\ UNCHANGED tv_selected
    /\ UNCHANGED <<busyVars, slideVars, avVars, wsVars, envVars>>

\* ToolContextWidget.on_tool_cleared().
on_tool_cleared ==
    /\ te_context' = 0
    /\ te_env' = [k \in {} |-> "/c"]
    /\ ToolLaunchWidget_reset
    /\ ToolOut("on_tool_cleared", 0)
    /\ emitted' = <<>>
    /\ UNCHANGED <<tv_selected, te_note>>

\* Mutant: an empty selection emits nothing.
on_selection_changed_silent(selected) ==
    IF selected # <<>> /\ selected[1] \in ToolIds
    THEN <<Signal("tool_selected", selected[1])>>
    ELSE <<>>

\* ToolsView._on_selection_changed(selected, _): the signals it emits;
\* selected holds the rows that became selected.
on_selection_changed(selected) ==
    IF selected # <<>> /\ selected[1] \in ToolIds
    THEN <<Signal("tool_selected", selected[1])>>
    ELSE <<Signal("tool_cleared", 0)>>

ViewOut(op, row) ==
    /\ ToolOut(op, row)
    /\ UNCHANGED <<tl_label, tl_ctx, tl_name, tl_launch, tl_shell, tl_tool,
                   tl_last, te_context, te_env, te_note>>

\* The user selects row i of the single-selection view: selectionChanged
\* carries the newly selected row.
select_tool(i) ==
    /\ i # tv_selected
    /\ tv_selected' = i
    /\ emitted' = on_selection_changed(<<i>>)
    /\ ViewOut("select_tool", i)

\* The user deselects the selected row: selectionChanged carries no row.
deselect_tool ==
    /\ tv_selected # 0
    /\ tv_selected' = 0
    /\ emitted' = on_selection_changed(<<>>)
    /\ ViewOut("deselect_tool", 0)

\* ToolsView._on_double_clicked(index); row 0 stands for an invalid index.
on_double_clicked(i) ==
    /\ emitted' = IF i \in ToolIds
                  THEN <<Signal("tool_launched", i)>> ELSE <<>>
    /\ UNCHANGED tv_selected
    /\ ViewOut("_on_double_clicked", i)

\* ToolsView.on_cache_cleared(): clearSelection() signals selectionChanged
\* when a row was selected.
ToolsView_on_cache_cleared ==
    /\ tv_selected' = 0
    /\ emitted' = IF tv_selected # 0
                  THEN on_selection_changed(<<>>) ELSE <<>>
    /\ ViewOut("on_cache_cleared", 0)

\* ================================================== ResolvedEnvironment

MaxText == 3
MaxBurst == 3
Tick == 100
SearchDelay == 400

\* Texts of the search field.
Texts == UNION {[1..n -> {"x"}] : n \in 0..MaxText}

Min(a, b) == IF a < b THEN a ELSE b

EnvOut(op, arg) ==
    /\ call' = [op |-> op, arg |-> arg, since |-> re_since,
                burst |-> re_burst]
    /\ raised' = "none"
    /\ logged' = <<>>
    /\ emitted' = <<>>
    /\ UNCHANGED <<busyVars, slideVars, avVars, wsVars, toolVars>>

\* Mutant: a running timer is left to run out.
on_searched_no_restart ==
    re_timer' = IF re_timer >= 0 THEN re_timer ELSE SearchDelay

\* _on_searched(_): self._timer.start(400) starts or restarts the timer.
on_searched ==
    re_timer' = SearchDelay

\* search.textChanged: the text of the search field changes to text.
textChanged(text) ==
    /\ text # re_text
    /\ re_burst < MaxBurst
    /\ re_text' = text
    /\ on_searched
    /\ re_since' = 0
    /\ re_burst' = re_burst + 1
    /\ re_applied' = 0
    /\ EnvOut("textChanged", text)
    /\ UNCHANGED <<re_filter, re_view, re_inverse, re_mode, re_switch_text>>

\* Time passes while the timer runs.
tick ==
    /\ re_timer > 0
    /\ re_timer' = re_timer - Min(Tick, re_timer)
    /\ re_since' = re_since + Min(Tick, re_timer)
    /\ UNCHANGED <<re_text, re_filter, re_view, re_inverse, re_mode,
                   re_switch_text, re_burst, re_applied>>
    /\ EnvOut("tick", Min(Tick, re_timer))

\* expandAll() if len(text) > 1 else collapseAll()
expand_or_collapse(text) ==
    IF Len(text) > 1 THEN "expanded" ELSE "collapsed"

\* timer.timeout of the single-shot timer: _deferred_search().
deferred_search ==
    /\ re_timer = 0
    /\ re_timer' = -1
    /\ re_filter' = re_text
    /\ re_view' = expand_or_collapse(re_text)
    /\ re_burst' = 0
    /\ re_applied' = re_applied + 1
    /\ EnvOut("_deferred_search", re_text)
    /\ UNCHANGED <<re_text, re_inverse, re_mode, re_switch_text, re_since>>

\* switch.stateChanged: _on_switched(state).
on_switched(state) ==
    /\ state # (IF re_mode = "key" THEN "Checked" ELSE "Unchecked")
    /\ IF state = "Checked"
       THEN re_switch_text' = "On Key" /\ re_mode' = "key"
       ELSE re_switch_text' = "On Value" /\ re_mode' = "value"
    /\ EnvOut("_on_switched", state)
    /\ UNCHANGED <<re_text, re_timer, re_filter, re_view, re_inverse,
                   re_since, re_burst, re_applied>>

\* inverse.stateChanged: _on_inverse(state).
on_inverse(state) ==
    /\ state # re_inverse
    /\ re_inverse' = state
    /\ re_view' = expand_or_collapse(re_text)
    /\ EnvOut("_on_inverse", state)
    /\ UNCHANGED <<re_text, re_timer, re_filter, re_mode, re_switch_text,
                   re_since, re_burst, re_applied>>

\* ======================================================== specifications

InitBusy ==
    /\ busy_works = [w \in BusyInst |-> {}]
    /\ entered = [w \in BusyInst |-> FALSE]
    /\ filters = {}
    /\ cursor_stack = 0
    /\ busy_adds = [w \in BusyInst |-> [k \in Workers |-> 0]]
    /\ cursor_balance = 0

InitSlide(count) ==
    /\ slide_count = count
    /\ slide_index = 0
    /\ slide_anims = <<>>

InitAvalon ==
    /\ av_entrance = NoScope
    /\ av_page = 0
    /\ av_tasks = <<>>
    /\ av_projects = <<>>
    /\ av_assets = <<>>
    /\ av_current = NoScope

InitWorkspace ==
    /\ ws_stack = <<"void">>
    /\ ws_stack_index = 0
    /\ ws_combo = <<>>
    /\ ws_combo_index = -1
    /\ ws_blocked = FALSE
    /\ ws_dispatched = NoDispatch

InitTools ==
    /\ tl_label = ""
    /\ tl_ctx = ""
    /\ tl_name = ""
    /\ tl_launch = FALSE
    /\ tl_shell = FALSE
    /\ tl_tool = 0
    /\ tl_last = "reset"
    /\ tv_selected = 0
    /\ te_context = 0
    /\ te_env = [k \in {} |-> "/c"]
    /\ te_note = 0

InitEnviron ==
    /\ re_text = <<>>
    /\ re_timer = -1
    /\ re_filter = <<>>
    /\ re_view = "collapsed"
    /\ re_inverse = "Unchecked"
    /\ re_mode = "key"
    /\ re_switch_text = "On Key"
    /\ re_since = 0
    /\ re_burst = 0
    /\ re_applied = 0

InitOut ==
    /\ call = [op |-> "init"]
    /\ raised = "none"
    /\ logged = <<>>
    /\ emitted = <<>>

Init ==
    InitBusy /\ InitSlide(AvalonPages) /\ InitAvalon /\ InitWorkspace
    /\ InitTools /\ InitEnviron /\ InitOut

\* One BusyWidget (A, with its subtree) driven by its four handlers.
NextBusy ==
    \/ \E w \in Workers : set_overwhelmed("A", w)
    \/ \E w \in Workers : pop_overwhelmed("A", w)
    \/ enterEvent("A")
    \/ leaveEvent("A")

SpecBusy == Init /\ [][NextBusy]_vars

\* The BusyWidget and the events Qt sends to it and to its descendants.
NextBusyEvents ==
    \/ NextBusy
    \/ \E w \in Widgets, t \in EventTypes : sendEvent(w, t)

SpecBusyEvents == Init /\ [][NextBusyEvents]_vars

\* One BusyWidget whose enter and leave events alternate.
NextBusyPointer ==
    \/ \E w \in Workers : set_overwhelmed("A", w)
    \/ \E w \in Workers : pop_overwhelmed("A", w)
    \/ ~entered["A"] /\ enterEvent("A")
    \/ entered["A"] /\ leaveEvent("A")

SpecBusyPointer == Init /\ [][NextBusyPointer]_vars

\* Two BusyWidgets, B inside A, sharing the one filter object.
NextBusyShared ==
    \/ \E i \in BusyInst, w \in Workers : set_overwhelmed(i, w)
    \/ \E i \in BusyInst, w \in Workers : pop_overwhelmed(i, w)

SpecBusyShared == Init /\ [][NextBusyShared]_vars

\* A SlidePageWidget of NumPages pages.
InitSlidePage ==
    InitBusy /\ InitSlide(NumPages) /\ InitAvalon /\ InitWorkspace
    /\ InitTools /\ InitEnviron /\ InitOut

NextSlide ==
    \/ \E i \in 0..(slide_count - 1), d \in DirectionTokens :
           call_slide_view(i, d)
    \/ slide_finished

SpecSlide == InitSlidePage /\ [][NextSlide]_vars

\* An AvalonWidget: the commands it accepts, and its slider's animations.
NextAvalon ==
    \/ \E s \in Scopes : enter_workspace(s)
    \/ \E s \in Scopes : \E c \in ChildrenOf(s) : update_workspace(s, c)
    \/ slide_finished

SpecAvalon == Init /\ [][NextAvalon]_vars

\* An AvalonWidget and the clicks on its home button.
NextAvalonHome ==
    \/ NextAvalon
    \/ on_home_clicked

SpecAvalonHome == Init /\ [][NextAvalonHome]_vars

\* An AvalonWidget whose set_page is also called directly.
NextAvalonPage ==
    \/ \E p \in 0..(AvalonPages - 1) : call_set_page(p)
    \/ NextAvalon

SpecAvalonPage == Init /\ [][NextAvalonPage]_vars

\* The tool views: the launcher, the tools list and the context widget.
NextTools ==
    \/ call_reset
    \/ \E t \in ToolIds : call_set_tool(t)
    \/ on_launch_tool_clicked
    \/ on_launch_shell_clicked
    \/ \E t \in ToolIds : \E w \in WorkEnvs : on_tool_selected(t, w)
    \/ on_tool_cleared
    \/ \E i \in ToolIds : select_tool(i)
    \/ deselect_tool
    \/ \E i \in ToolIds \cup {0} : on_double_clicked(i)
    \/ ToolsView_on_cache_cleared

SpecTools == Init /\ [][NextTools]_vars

\* A ResolvedEnvironment: search field, timer and the two check boxes.
NextEnviron ==
    \/ \E t \in Texts : textChanged(t)
    \/ tick
    \/ deferred_search
    \/ \E st \in {"Checked", "Unchecked"} : on_switched(st)
    \/ \E st \in {"Checked", "Unchecked"} : on_inverse(st)

SpecEnviron == Init /\ [][NextEnviron]_vars

\* A WorkspaceWidget: the commands it accepts and the selector.
NextWorkspace ==
    \/ \E n \in NameLists : \E o \in [load_backends -> Outcomes] :
           register_backends(n, o)
    \/ \E i \in 0..(MaxNames - 1) : select_backend(i)
    \/ \E s \in WsScopes : on_workspace_entered(s)
    \/ on_workspace_updated
    \/ on_cache_cleared

SpecWorkspace == Init /\ [][NextWorkspace]_vars

Next ==
    \/ NextBusyEvents \/ NextSlide \/ NextAvalonPage
    \/ NextWorkspace \/ NextTools \/ NextEnviron
    \/ NextBusyShared \/ NextBusyPointer \/ NextAvalonHome

Spec == Init /\ [][Next]_vars

\* ================================================================ claims

\* C1: for one BusyWidget, after any sequence of set_overwhelmed,
\* pop_overwhelmed, enterEvent and leaveEvent calls, the input-blocking
\* filter is installed on the widget exactly when its set of outstanding
\* worker ids is not empty.
C1_FilterIffBusy ==
    ("A" \in filters) <=> (busy_works["A"] # {})

\* C1 witness: an id was popped while another is outstanding, with the
\* pointer over the widget, and the filter is installed.
C1_Witness ==
    /\ call.op = "pop_overwhelmed"
    /\ call.arg = "c"
    /\ busy_works["A"] = {"a"}
    /\ entered["A"]
    /\ "A" \in filters

\* C2: worker ids are a set, not a counter: one pop_overwhelmed(w) removes w
\* however often set_overwhelmed(w) was called before it; the widget is then
\* unblocked if no id is left, and stays blocked while another id is left.
C2_SetNotCounter ==
    call.op = "pop_overwhelmed" =>
        /\ call.arg \notin busy_works["A"]
        /\ busy_works["A"] = {} => "A" \notin filters
        /\ busy_works["A"] # {} => "A" \in filters

\* C2 witness: "a" was set twice and popped once; the set is empty and the
\* widget unblocked.
C2_Witness ==
    /\ call.op = "pop_overwhelmed"
    /\ call.arg = "a"
    /\ call.adds = 2
    /\ busy_works["A"] = {}
    /\ "A" \notin filters

\* C3 (as claimed): at no time are two page transitions of one
\* SlidePageWidget running together.
C3_OneTransition ==
    Len(slide_anims) <= 1

\* C4 (as claimed): an update_workspace delivered for a scope other than the
\* scope entered last leaves the project list and asset tree models alone.
C4_StaleDiscarded ==
    [][(call'.op = "update_workspace" /\ call'.scope # av_current)
          => (av_projects' = av_projects /\ av_assets' = av_assets)]_vars

\* C5 (as claimed): on_workspace_entered with a root scope whose name the
\* selector does not hold logs one critical record, does not raise, and
\* leaves the displayed page and the rest of the widget as they were.
C5_UnknownRootKeepsState ==
    [][(/\ call'.op = "on_workspace_entered"
        /\ call'.arg.upstream = None
        /\ findText(ws_combo, call'.arg.name) < 0)
          => (/\ raised' = "none"
              /\ Len(logged') = 1
              /\ logged'[1].level = "critical"
              /\ UNCHANGED <<ws_stack, ws_stack_index, ws_combo,
                             ws_combo_index, ws_blocked>>)]_vars

\* The names of a list that are in the table and load and construct.
Loaded(names, outcome) ==
    SelectSeq(names, LAMBDA n : n \in load_backends /\ outcome[n] = "ok")

\* C6 (as claimed): register_backends on a widget without backends does not
\* raise, and afterwards the selector holds exactly the names that loaded
\* and constructed, in the order given.
C6_FailedBackendSkipped ==
    [][(call'.op = "register_backends" /\ Len(ws_stack) = 1)
          => (/\ raised' = "none"
              /\ ws_combo' = Loaded(call'.arg, call'.outcome))]_vars

\* C7 (as claimed): a register_backends call that adds a backend emits
\* backend_changed once, with the selector's current name; a call that adds
\* none emits nothing.
C7_OneBackendChanged ==
    [][call'.op = "register_backends"
          => (emitted' = IF Len(ws_combo') > Len(ws_combo)
                         THEN <<Signal("backend_changed",
                                       ws_combo'[ws_combo_index' + 1])>>
                         ELSE <<>>)]_vars

\* C8 (as claimed): with no backend registered the placeholder page (index
\* 0) stays displayed and on_workspace_entered, on_workspace_updated and
\* on_cache_cleared return without raising.
C8_NoBackendNoRaise ==
    (/\ ws_combo = <<>>
     /\ call.op \in {"on_workspace_entered", "on_workspace_updated",
                     "on_cache_cleared"})
        => (ws_stack_index = 0 /\ raised = "none")

\* C9 (as claimed): enter_workspace and update_workspace with a scope of a
\* variant without handler log a critical record, do not raise, and leave
\* page, task list, entrance and models as they were.
C9_UnsupportedScopeHandled ==
    [][(/\ call'.op \in {"enter_workspace", "update_workspace"}
        /\ call'.scope.variant
               \notin {"Entrance", "Project", "Asset", "Task"})
          => (/\ raised' = "none"
              /\ \E i \in 1..Len(logged') : logged'[i].level = "critical"
              /\ UNCHANGED <<av_page, av_tasks, av_entrance, av_projects,
                             av_assets, slideVars>>)]_vars

\* C10: slide_view(i, d) with i the current index starts no animation and
\* leaves the current index unchanged, for every direction token d.
C10_SameIndexNoOp ==
    [][(call'.op = "slide_view" /\ call'.index = slide_index)
          => UNCHANGED <<slide_index, slide_anims, slide_count>>]_vars

\* C10 witness: slide_view was called for the current page with an unknown
\* direction while an animation is running.
C10_Witness ==
    /\ call.op = "slide_view"
    /\ call.index = slide_index
    /\ call.direction = "forward"
    /\ slide_anims # <<>>

\* C11 (as claimed): every slide_view call with a direction outside left,
\* right, up, down leaves the slider as it was and writes exactly one
\* warning, whatever the target index.
C11_InvalidAlwaysWarns ==
    [][(call'.op = "slide_view" /\ call'.direction \notin directions)
          => (/\ UNCHANGED slideVars
              /\ Len(logged') = 1
              /\ logged'[1].level = "warning")]_vars

\* C11 (amended): a slide_view call with a direction outside left, right,
\* up, down leaves the slider as it was; it writes exactly one warning when
\* the target differs from the current index and none when it is the
\* current index.
C11_InvalidWarnsOffCurrent ==
    [][(call'.op = "slide_view" /\ call'.direction \notin directions)
          => (/\ UNCHANGED slideVars
              /\ IF call'.index = slide_index
                 THEN logged' = <<>>
                 ELSE /\ Len(logged') = 1
                      /\ logged'[1].level = "warning")]_vars

\* C11 witness: an unknown direction with another page as target wrote one
\* warning.
C11_Witness ==
    /\ call.op = "slide_view"
    /\ call.direction = "forward"
    /\ call.index # slide_index
    /\ Len(logged) = 1
    /\ logged[1].level = "warning"

\* C12 (as claimed): while a transition runs the current index keeps its
\* value, and changes only in the step that finishes that transition, to
\* the transition's target; the page count never changes.
C12_IndexSwitchesOnce ==
    [][/\ slide_count' = slide_count
       /\ \A k \in 1..Len(slide_anims) :
              \/ slide_index' = slide_index
              \/ /\ k = 1
                 /\ call'.op = "slide_finished"
                 /\ slide_index' = slide_anims[1]]_vars

\* C14: while the widget is busy, enterEvent and leaveEvent leave the set
\* of worker ids and the installed filter as they are.
C14_EnterLeaveKeepBlocking ==
    [][(call'.op \in {"enterEvent", "leaveEvent"} /\ busy_works["A"] # {})
          => UNCHANGED <<busy_works, filters>>]_vars

\* C14 witness: the pointer left the busy widget; the cursor was restored
\* and the widget is still blocked.
C14_Witness ==
    /\ call.op = "leaveEvent"
    /\ busy_works["A"] = {"a", "b"}
    /\ ~entered["A"]
    /\ cursor_stack = 0
    /\ "A" \in filters

\* C13 (as claimed): set_page(p) changes nothing when p is both the slider's
\* current index and the cached page, and two set_page(p) calls in a row
\* start at most one transition between them.
C13_SetPageIdempotent ==
    [][call'.op = "set_page"
          => (/\ (call'.page = slide_index /\ call'.page = av_page)
                    => UNCHANGED <<av_page, slideVars>>
              /\ (call.op = "set_page" /\ call.page = call'.page)
                    => call.started + call'.started <= 1)]_vars

\* C15: the busy event filter handles (swallows) exactly the events of type
\* Scroll, KeyPress, KeyRelease, MouseButtonPress, MouseButtonRelease and
\* MouseButtonDblClick, with one overwhelmed signal for each; any other
\* event is not handled and emits nothing.
C15_FilterSwallowsInput ==
    call.op = "eventFilter" =>
        /\ call.handled <=>
               call.type \in {"Scroll", "KeyPress", "KeyRelease",
                              "MouseButtonPress", "MouseButtonRelease",
                              "MouseButtonDblClick"}
        /\ call.handled =>
               (Len(emitted) = 1 /\ emitted[1].signal = "overwhelmed")
        /\ ~call.handled => emitted = <<>>

\* C15 witness: a Scroll event sent to a descendant of the busy widget was
\* swallowed.
C15_Witness ==
    /\ call.op = "eventFilter"
    /\ call.watched = "b1"
    /\ call.type = "Scroll"
    /\ call.handled
    /\ Len(emitted) = 1


\* C16: ToolLaunchWidget: after any sequence of set_tool and reset calls the
\* Launch and Launch-shell buttons are enabled exactly when the most recent
\* of them was set_tool; they are disabled at construction (whose last step
\* is reset), and after reset the label, context-name and tool-name fields
\* are empty.
C16_EnabledIffToolSet ==
    /\ tl_launch <=> (tl_last = "set_tool")
    /\ tl_shell <=> (tl_last = "set_tool")
    /\ (tl_last = "reset") =>
          (tl_label = "" /\ tl_ctx = "" /\ tl_name = "")
    /\ (call.op = "init") => (~tl_launch /\ ~tl_shell)

\* A reset that followed a set_tool: the buttons are disabled again.
C16_Witness ==
    /\ call.op = "reset"
    /\ tl_tool # 0
    /\ ~tl_launch /\ ~tl_shell
    /\ tl_name = ""

\* C17: every selection change in ToolsView emits exactly one event,
\* tool_selected with the newly selected tool when the new selection is
\* non-empty and tool_cleared when it is empty; double-activating a valid
\* item emits tool_launched with that item's tool and nothing else.
C17_OneEventPerSelectionChange ==
    [][/\ (tv_selected' # tv_selected) =>
            emitted' = IF tv_selected' # 0
                       THEN <<Signal("tool_selected", tv_selected')>>
                       ELSE <<Signal("tool_cleared", 0)>>
       /\ (call'.op = "_on_double_clicked" /\ call'.tool \in ToolIds) =>
            /\ emitted' = <<Signal("tool_launched", call'.tool)>>
            /\ tv_selected' = tv_selected]_vars

\* clearSelection() on a view with a selected row emitted tool_cleared.
C17_Witness ==
    /\ call.op = "on_cache_cleared"
    /\ tv_selected = 0
    /\ emitted = <<Signal("tool_cleared", 0)>>

\* C18: on_tool_selected(tool, work_env) loads the key-wise merge of the
\* context's resolved environment with work_env: every key of work_env is
\* shown with work_env's value, every key only in the resolved environment
\* keeps its resolved value, and no resolved key is dropped.
C18_EnvMergedLocalWins ==
    (call.op = "on_tool_selected") =>
        LET resolved == ToolPool[call.tool].env
            work_env == call.work_env
        IN  /\ DOMAIN te_env = DOMAIN resolved \cup DOMAIN work_env
            /\ \A k \in DOMAIN work_env : te_env[k] = work_env[k]
            /\ \A k \in DOMAIN resolved \ DOMAIN work_env :
                    te_env[k] = resolved[k]

\* Resolved PATH=/a:/b with override PATH=/c: PATH shows /c, HOME is kept.
C18_Witness ==
    /\ call.op = "on_tool_selected"
    /\ DOMAIN ToolPool[call.tool].env = {"PATH", "HOME"}
    /\ ToolPool[call.tool].env["PATH"] = "/a:/b"
    /\ DOMAIN call.work_env = {"PATH"}
    /\ call.work_env["PATH"] = "/c"
    /\ te_env["PATH"] = "/c"
    /\ te_env["HOME"] = ToolPool[call.tool].env["HOME"]


\* C19: search-text debounce: each text change restarts the single-shot
\* timer at 400 ms; the filter is applied only when 400 ms have passed with
\* no further text change, with the search field's text of that moment; a
\* burst of changes is applied at most once, and once the timer is no longer
\* running the applied text is the latest one.
C19_Debounce ==
    /\ (call.op = "textChanged") => (re_timer = SearchDelay)
    /\ (call.op = "_deferred_search") =>
          /\ call.since >= SearchDelay
          /\ re_filter = call.arg
          /\ re_filter = re_text
    /\ re_applied <= 1
    /\ (re_timer = -1) => (re_filter = re_text)

\* A burst of two text changes was applied once, with the second text.
C19_Witness ==
    /\ call.op = "_deferred_search"
    /\ call.burst >= 2
    /\ re_applied = 1
    /\ re_filter = <<"x", "x">>

\* C20: after every filter change of the resolved-environment view (applied
\* text change, inverse toggle, key/value switch) the tree is fully expanded
\* if the filter text applied to the proxy is longer than 1, and fully
\* collapsed otherwise.
C20_ExpandedIffAppliedLong ==
    [][(call'.op \in {"_deferred_search", "_on_inverse", "_on_switched"}) =>
          (re_view' = expand_or_collapse(re_filter'))]_vars


\* C21: AvalonWidget.enter_workspace dispatches on the scope's variant: an
\* Entrance is stored as the entrance and page 0 is requested; a Project
\* requests page 1 and the task selector then holds exactly that project's
\* tasks; an Asset or a Task changes neither the page, the task list nor the
\* stored entrance.
C21_EnterDispatchesOnVariant ==
    [][(call'.op = "enter_workspace") =>
          /\ (call'.scope.variant = "Entrance") =>
                (av_entrance' = call'.scope /\ av_page' = 0)
          /\ (call'.scope.variant = "Project") =>
                (av_page' = 1 /\ av_tasks' = tasks(call'.scope.name)
                 /\ av_entrance' = av_entrance)
          /\ (call'.scope.variant \in {"Asset", "Task"}) =>
                UNCHANGED <<av_page, slideVars, av_tasks, av_entrance>>]_vars

\* Project P2 was entered after the entrance: page 1 is requested and the
\* selector holds P2's tasks.
C21_Witness ==
    /\ call.op = "enter_workspace"
    /\ call.scope = Scope("Project", "P2")
    /\ av_entrance = Scope("Entrance", "avalon")
    /\ av_page = 1
    /\ av_tasks = <<"anim">>

\* C22: for any sequence of set_page calls interleaved with animation
\* completions, once no animation is in flight the slider's displayed page
\* equals the page most recently requested through set_page (_page).
C22_DisplayedIsRequested ==
    (slide_anims = <<>>) => (slide_index = av_page)


\* C23: BusyWidget instances share the one filter object without
\* interference: for any two instances (one may be a descendant of the
\* other) and any interleaving of their set_overwhelmed and pop_overwhelmed
\* calls, the filter is installed on an instance and on its descendants
\* whenever that instance's own worker set is non-empty.
C23_SharedFilterNoInterference ==
    \A i \in BusyInst :
        (busy_works[i] # {}) => (({i} \cup iter_children(i)) \subseteq filters)


\* C24: busy-pointer balance on one BusyWidget whose enter and leave events
\* alternate: the number of restore-pointer calls never exceeds the number
\* of set-busy-pointer calls, and the busy pointer is in effect exactly when
\* the worker set is non-empty and the pointer is inside the widget.
C24_PointerBalanced ==
    /\ cursor_balance >= 0
    /\ (cursor_stack > 0) <=> (busy_works["A"] # {} /\ entered["A"])


\* C25: in every reachable state of WorkspaceWidget the page stack has one
\* more page than the selector has entries and the page at stack index i+1
\* is the widget registered under entry i, so that on_workspace_entered with
\* a root scope named like entry i dispatches enter_workspace to that
\* entry's widget (page i+1); a register_backends call made after a backend
\* is registered changes nothing.
C25_StackMirrorsSelector ==
    [][/\ Len(ws_stack') = Len(ws_combo') + 1
       /\ \A i \in 0..(Len(ws_combo') - 1) : ws_stack'[i + 2] = ws_combo'[i + 1]
       /\ (call'.op = "on_workspace_entered" /\ call'.arg.upstream = None) =>
             \A i \in 0..(Len(ws_combo) - 1) :
                 (ws_combo[i + 1] = call'.arg.name) =>
                     ws_dispatched' = [page |-> i + 1,
                                       method |-> "enter_workspace"]
       /\ (call'.op = "register_backends" /\ Len(ws_combo) >= 1) =>
             UNCHANGED <<ws_stack, ws_stack_index, ws_combo, ws_combo_index,
                         ws_blocked>>]_vars


\* C26: ToolLaunchWidget emits tool_launched or shell_launched only while a
\* tool is set: never between a reset and the next set_tool, and the payload
\* is the tool passed to the most recent set_tool (the one the name, context
\* and label fields show), never None.
C26_LaunchOnlySetTool ==
    (call.op \in {"_on_launch_tool_clicked", "_on_launch_shell_clicked"}) =>
        /\ tl_last = "set_tool"
        /\ Len(emitted) = 1
        /\ emitted[1].signal =
              (IF call.op = "_on_launch_tool_clicked"
               THEN "tool_launched" ELSE "shell_launched")
        /\ emitted[1].arg \in ToolIds
        /\ tl_name = ToolPool[emitted[1].arg].name
        /\ tl_ctx = ToolPool[emitted[1].arg].ctx_name
        /\ tl_label = ToolPool[emitted[1].arg].label

\* The shell button was clicked while tool 2 was set.
C26_Witness ==
    /\ call.op = "_on_launch_shell_clicked"
    /\ emitted = <<Signal("shell_launched", 2)>>
    /\ tl_name = "nuke"


\* C27: AssetTreeModel.refresh(scopes) completes without error for every
\* list of assets and yields a tree in which each non-hidden asset of the
\* list appears exactly once, at top level if it has no parent and otherwise
\* directly under the item of its own parent asset, and no hidden asset
\* appears; also when a visible asset's parent is hidden or listed after it.
C27_RefreshBuildsTree ==
    (call.op = "update_workspace" /\ call.scope.variant = "Project") =>
        /\ raised = "none"
        /\ \A k \in DOMAIN call.scopes :
              IF AssetPool[call.scopes[k]].is_hidden
              THEN \A r \in DOMAIN av_assets :
                       av_assets[r].asset # call.scopes[k]
              ELSE Cardinality({r \in DOMAIN av_assets :
                       av_assets[r].asset = call.scopes[k]}) = 1
        /\ \A r \in DOMAIN av_assets :
              IF AssetPool[av_assets[r].asset].parent = 0
              THEN av_assets[r].under = 0
              ELSE /\ av_assets[r].under \in DOMAIN av_assets
                   /\ av_assets[av_assets[r].under].asset =
                          AssetPool[av_assets[r].asset].parent


\* C28: whenever the home button of AvalonWidget can be clicked (the asset
\* page, index 1, is displayed) an entrance has been stored, so
\* _on_home_clicked emits workspace_changed with that entrance and its
\* assertion never fails, for every order of enter_workspace calls.
C28_HomeHasEntrance ==
    /\ (slide_index = 1) => (av_entrance # NoScope)
    /\ (call.op = "_on_home_clicked") =>
          /\ raised = "none"
          /\ call.scope # NoScope
          /\ emitted = <<Signal("workspace_changed", call.scope)>>

====
